---- MODULE Spec2Model ----
(***************************************************************************)
(* ckanext.scheming.validation: the validator-string compiler, the         *)
(* multiple-choice coercion and the composite date/time coercion.          *)
(*                                                                         *)
(* Python strings are sequences of one-character strings, so that JSON     *)
(* encoding, whitespace splitting and date parsing are computed character  *)
(* by character.  Python values are tagged records:                        *)
(*   missing, None, str, list, int, datetime.                              *)
(* data / errors / extras are the dicts handed to a navl validator; a      *)
(* dict is a function whose DOMAIN is its key set.                         *)
(***************************************************************************)
EXTENDS Integers, Sequences, FiniteSets, TLC

VARIABLES
    field,    \* the field definition of the record's field (choices, required)
    key,      \* the flattened key of the field under validation
    data,     \* Record Data: key tuple -> value
    errors,   \* Error Accumulator: key tuple -> sequence of messages
    extras,   \* the dict at data[('__extras',)]: flat name -> string
    last,     \* the stage that ran last, with how it ended
    pre,      \* data, errors, extras and last as they were before that stage
    stages,   \* number of stages run on this record
    s,        \* the validators string handed to validators_from_string
    parts0,   \* the tokens s was written from
    out       \* what validators_from_string produced

vars == <<field, key, data, errors, extras, last, pre, stages, s, parts0, out>>
recordVars == <<field, key, data, errors, extras, last, pre, stages>>
compileVars == <<s, parts0, out>>

(* ------------------------------ bounds -------------------------------- *)
MaxList == 3
MaxStages == 3
MaxTokens == 3

(* --------------------------- Python values ---------------------------- *)
Missing == [t |-> "missing"]
None == [t |-> "none"]
Str(cs) == [t |-> "str", s |-> cs]
List(l) == [t |-> "list", l |-> l]
PyInt(n) == [t |-> "int", n |-> n]
Datetime(y, mo, d, h, mi, tz) ==
    [t |-> "datetime", y |-> y, mo |-> mo, d |-> d, h |-> h, mi |-> mi, tz |-> tz]

\* bool(value): ckan's Missing defines __nonzero__ as False; a datetime is always true
Truthy(v) ==
    CASE v.t = "missing" -> FALSE
      [] v.t = "none" -> FALSE
      [] v.t = "str" -> v.s # <<>>
      [] v.t = "list" -> v.l # <<>>
      [] v.t = "int" -> v.n # 0
      [] OTHER -> TRUE

Msg(m) == [m |-> m, arg |-> <<>>]
MsgArg(m, a) == [m |-> m, arg |-> a]

SeqToSet(q) == {q[i] : i \in DOMAIN q}

RECURSIVE SeqsUpTo(_, _)
SeqsUpTo(S, n) ==
    IF n = 0 THEN {<<>>}
    ELSE LET shorter == SeqsUpTo(S, n - 1)
         IN shorter \cup {Append(q, x) : q \in shorter, x \in S}

(* ------------------------------- json --------------------------------- *)
QUOTE == "\""
BSLASH == "\\"

RECURSIVE EscapeChars(_)
EscapeChars(cs) ==
    IF cs = <<>> THEN <<>>
    ELSE (IF Head(cs) \in {QUOTE, BSLASH} THEN <<BSLASH, Head(cs)>> ELSE <<Head(cs)>>)
         \o EscapeChars(Tail(cs))

RECURSIVE JoinItems(_)
JoinItems(items) ==
    IF items = <<>> THEN <<>>
    ELSE IF Len(items) = 1 THEN <<QUOTE>> \o EscapeChars(Head(items)) \o <<QUOTE>>
    ELSE <<QUOTE>> \o EscapeChars(Head(items)) \o <<QUOTE, ",", " ">>
         \o JoinItems(Tail(items))

\* json.dumps of a list of strings, default separators
json_dumps(items) == <<"[">> \o JoinItems(items) \o <<"]">>

ParseFail == [ok |-> FALSE, val |-> None, next |-> 0]

RECURSIVE SkipWs(_, _)
SkipWs(cs, i) ==
    IF i <= Len(cs) /\ cs[i] \in {" ", "\t"} THEN SkipWs(cs, i + 1) ELSE i

\* after the opening quote; the escapes \b \f \n \r \t \u do not occur over
\* the alphabet of the model
RECURSIVE ParseString(_, _, _)
ParseString(cs, i, acc) ==
    IF i > Len(cs) THEN ParseFail
    ELSE IF cs[i] = QUOTE THEN [ok |-> TRUE, val |-> Str(acc), next |-> i + 1]
    ELSE IF cs[i] = BSLASH
         THEN IF i + 1 <= Len(cs) /\ cs[i + 1] \in {QUOTE, BSLASH, "/"}
              THEN ParseString(cs, i + 2, Append(acc, cs[i + 1]))
              ELSE ParseFail
    ELSE ParseString(cs, i + 1, Append(acc, cs[i]))

RECURSIVE ParseValue(_, _)
RECURSIVE ParseArray(_, _, _)
ParseValue(cs, i) ==
    IF i > Len(cs) THEN ParseFail
    ELSE IF cs[i] = QUOTE THEN ParseString(cs, i + 1, <<>>)
    ELSE IF cs[i] = "["
         THEN LET j == SkipWs(cs, i + 1)
              IN IF j <= Len(cs) /\ cs[j] = "]"
                 THEN [ok |-> TRUE, val |-> List(<<>>), next |-> j + 1]
                 ELSE ParseArray(cs, j, <<>>)
    ELSE ParseFail

\* at the start of an element of a non-empty array
ParseArray(cs, i, acc) ==
    LET v == ParseValue(cs, i)
    IN IF ~v.ok THEN ParseFail
       ELSE LET j == SkipWs(cs, v.next)
            IN IF j > Len(cs) THEN ParseFail
               ELSE IF cs[j] = "]"
                    THEN [ok |-> TRUE, val |-> List(Append(acc, v.val)), next |-> j + 1]
               ELSE IF cs[j] = ","
                    THEN ParseArray(cs, SkipWs(cs, j + 1), Append(acc, v.val))
               ELSE ParseFail

\* json.loads: ok = FALSE stands for ValueError
json_loads(cs) ==
    LET v == ParseValue(cs, SkipWs(cs, 1))
    IN IF v.ok /\ SkipWs(cs, v.next) = Len(cs) + 1
       THEN [ok |-> TRUE, val |-> v.val]
       ELSE [ok |-> FALSE, val |-> None]

(* ------------------------- scheming_multiple_choice ------------------- *)
\* choice_values = set(c['value'] for c in field['choices'])
choice_values(f) == SeqToSet(f.choices)

InChoices(f, element) == element.t = "str" /\ element.s \in choice_values(f)

\* the for loop's selected set
RECURSIVE SelectedOf(_, _)
SelectedOf(f, value) ==
    IF value = <<>> THEN {}
    ELSE (IF InChoices(f, Head(value)) THEN {Head(value).s} ELSE {})
         \cup SelectedOf(f, Tail(value))

\* the for loop's appends to errors[key], in iteration order
RECURSIVE UnexpectedOf(_, _)
UnexpectedOf(f, value) ==
    IF value = <<>> THEN <<>>
    ELSE (IF InChoices(f, Head(value)) THEN <<>>
          ELSE <<MsgArg("unexpected choice", Head(value))>>)
         \o UnexpectedOf(f, Tail(value))

\* mutant: the selection is stored in the reverse of the declared order
RECURSIVE StoredChoicesReversed(_, _)
StoredChoicesReversed(choices, selected) ==
    IF choices = <<>> THEN <<>>
    ELSE StoredChoicesReversed(Tail(choices), selected)
         \o (IF Head(choices) \in selected THEN <<Head(choices)>> ELSE <<>>)

\* [c['value'] for c in field['choices'] if c['value'] in selected]
StoredChoices(choices, selected) ==
    SelectSeq(choices, LAMBDA c : c \in selected)

\* mutant: the stored JSON string is wrapped without being decoded
scheming_multiple_choice_output_raw(value) ==
    IF value.t = "list" THEN [val |-> value, exc |-> "none"]
    ELSE [val |-> List(<<value>>), exc |-> "none"]

\* mutant: the short circuit on a prior error is lost
HasPriorErrorNever(errs, k) == FALSE

\* if errors[key]: return
HasPriorError(errs, k) == errs[k] # <<>>

\* the validator closure; returns the dicts as it leaves them and how it ended
multiple_choice_validator(f, k, d, errs) ==
    IF HasPriorError(errs, k) THEN [data |-> d, errors |-> errs, exc |-> "none"]
    ELSE
    LET raw == d[k]
        isList == raw.t \in {"missing", "str", "list"}
        value == CASE raw.t = "missing" -> <<>>
                   [] raw.t = "str" -> <<raw>>
                   [] raw.t = "list" -> raw.l
                   [] OTHER -> <<>>
    IN IF ~isList
       THEN [data |-> d,
             errors |-> [errs EXCEPT ![k] = Append(@, Msg("expecting list of strings"))],
             exc |-> "none"]
       ELSE
       LET selected == SelectedOf(f, value)
           errs1 == [errs EXCEPT ![k] = @ \o UnexpectedOf(f, value)]
       IN IF errs1[k] # <<>>
          THEN [data |-> d, errors |-> errs1, exc |-> "none"]
          ELSE [data |-> [d EXCEPT ![k] = Str(json_dumps(StoredChoices(f.choices, selected)))],
                errors |-> IF f.required /\ selected = {}
                           THEN [errs1 EXCEPT ![k] = Append(@, Msg("Select at least one"))]
                           ELSE errs1,
                exc |-> "none"]

\* scheming_multiple_choice_output: exc = "TypeError" when json.loads is handed
\* something that is no string
scheming_multiple_choice_output(value) ==
    IF value.t = "list" THEN [val |-> value, exc |-> "none"]
    ELSE IF value.t # "str" THEN [val |-> None, exc |-> "TypeError"]
    ELSE LET r == json_loads(value.s)
         IN IF r.ok THEN [val |-> r.val, exc |-> "none"]
            ELSE [val |-> List(<<value>>), exc |-> "none"]

(* ----------------------- h.date_str_to_datetime ----------------------- *)
Digits == {"0", "1", "2", "3", "4", "5", "6", "7", "8", "9"}

DigitVal(ch) ==
    CASE ch = "0" -> 0 [] ch = "1" -> 1 [] ch = "2" -> 2 [] ch = "3" -> 3
      [] ch = "4" -> 4 [] ch = "5" -> 5 [] ch = "6" -> 6 [] ch = "7" -> 7
      [] ch = "8" -> 8 [] ch = "9" -> 9

\* re.split('[^\d]+', date_str, maxsplit=5): cur is the piece being read, acc the
\* pieces cut so far, insep whether the last character belonged to a separator
RECURSIVE SplitNonDigits(_, _, _, _)
SplitNonDigits(cs, cur, acc, insep) ==
    IF cs = <<>> THEN Append(acc, cur)
    ELSE IF Len(acc) = 5 THEN Append(acc, cur \o cs)
    ELSE IF Head(cs) \in Digits THEN SplitNonDigits(Tail(cs), Append(cur, Head(cs)), acc, FALSE)
    ELSE IF insep THEN SplitNonDigits(Tail(cs), cur, acc, TRUE)
    ELSE SplitNonDigits(Tail(cs), <<>>, Append(acc, cur), TRUE)

AllDigits(cs) == \A i \in DOMAIN cs : cs[i] \in Digits

RECURSIVE ToInt(_, _)
ToInt(cs, n) == IF cs = <<>> THEN n ELSE ToInt(Tail(cs), 10 * n + DigitVal(Head(cs)))

IsLeap(y) == (y % 4 = 0 /\ y % 100 # 0) \/ y % 400 = 0

DaysIn(y, mo) ==
    IF mo = 2 THEN (IF IsLeap(y) THEN 29 ELSE 28)
    ELSE IF mo \in {4, 6, 9, 11} THEN 30 ELSE 31

\* (?P<seconds>\d{2})(\.(?P<microseconds>\d{6}))?$ on the sixth piece
SecondsOk(cs) ==
    \/ Len(cs) = 2 /\ AllDigits(cs)
    \/ /\ Len(cs) = 9
       /\ cs[3] = "."
       /\ AllDigits(SubSeq(cs, 1, 2))
       /\ AllDigits(SubSeq(cs, 4, 9))

\* ok = FALSE with exc TypeError or ValueError; the typed value otherwise.
\* The model's datetime keeps year..minute; seconds are range-checked and dropped.
date_str_to_datetime(v) ==
    IF v.t # "str" THEN [ok |-> FALSE, exc |-> "TypeError", val |-> None]
    ELSE
    LET pieces == SplitNonDigits(v.s, <<>>, <<>>, FALSE)
        n == Len(pieces)
        head == IF n >= 6 THEN SubSeq(pieces, 1, 5) ELSE pieces
        num(i) == IF i <= Len(head) THEN ToInt(head[i], 0) ELSE 0
        sec == IF n >= 6 THEN ToInt(SubSeq(pieces[6], 1, 2), 0) ELSE 0
    IN IF n >= 6 /\ ~SecondsOk(pieces[6])
       THEN [ok |-> FALSE, exc |-> "ValueError", val |-> None]
       ELSE IF \E i \in DOMAIN head : head[i] = <<>>
       THEN [ok |-> FALSE, exc |-> "ValueError", val |-> None]
       ELSE IF n < 3
       THEN [ok |-> FALSE, exc |-> "TypeError", val |-> None]
       ELSE IF /\ num(1) \in 1..9999
               /\ num(2) \in 1..12
               /\ num(3) \in 1..DaysIn(num(1), num(2))
               /\ num(4) \in 0..23
               /\ num(5) \in 0..59
               /\ sec \in 0..59
       THEN [ok |-> TRUE, exc |-> "none",
             val |-> Datetime(num(1), num(2), num(3), num(4), num(5), <<>>)]
       ELSE [ok |-> FALSE, exc |-> "ValueError", val |-> None]

(* -------------------------------- pytz -------------------------------- *)
UTC == <<"U", "T", "C">>
EET == <<"E", "E", "T">>
\* the names of pytz.all_timezones the model draws from
all_timezones == {UTC, EET}

\* pytz.timezone(value).localize(date): the offset is attached, the wall clock kept
localize(name, date) == [date EXCEPT !.tz = name]

\* hours east of UTC, for the winter dates of the model
UtcOffset(name) == IF name = EET THEN 2 ELSE 0

\* sh.scheming_datetime_to_UTC: an aware value is shifted to its UTC wall clock,
\* a naive one is taken to be UTC already
scheming_datetime_to_UTC(date) ==
    IF date.tz = <<>> THEN date
    ELSE
    LET h0 == date.h - UtcOffset(date.tz)
        back == h0 < 0
        d0 == IF back THEN date.d - 1 ELSE date.d
        mo0 == IF d0 = 0 THEN date.mo - 1 ELSE date.mo
        y0 == IF mo0 = 0 THEN date.y - 1 ELSE date.y
        mo1 == IF mo0 = 0 THEN 12 ELSE mo0
    IN Datetime(y0, mo1, IF d0 = 0 THEN DaysIn(y0, mo1) ELSE d0,
                IF back THEN h0 + 24 ELSE h0, date.mi, <<>>)

\* sh.date_tz_str_to_datetime: the date+timezone string parser
date_tz_str_to_datetime(v) == date_str_to_datetime(v)

(* ------------------------------ not_empty ----------------------------- *)
\* ckan's not_empty: records 'Missing value' and raises StopOnError
not_empty(k, d, errs) ==
    IF ~Truthy(d[k])
    THEN [errors |-> [errs EXCEPT ![k] = Append(@, Msg("Missing value"))],
          exc |-> "StopOnError"]
    ELSE [errors |-> errs, exc |-> "none"]

(* -------------------------- validate_date_inputs ---------------------- *)
Without(ex, name) == [n \in DOMAIN ex \ {name} |-> ex[n]]

EmptyStr == Str(<<>>)

get_input(suffix, f, k, st) ==
    LET inpt == k[1] \o "_" \o suffix
        new_key == <<inpt>> \o SelectSeq(k, LAMBDA x : x # k[1])
        value == IF inpt \in DOMAIN st.extras THEN st.extras[inpt] ELSE None
        d1 == (new_key :> value) @@ st.data
        e1 == (new_key :> <<>>) @@ st.errors
        x1 == IF Truthy(value) THEN Without(st.extras, inpt) ELSE st.extras
        ne == IF f.required THEN not_empty(new_key, d1, e1)
              ELSE [errors |-> e1, exc |-> "none"]
    IN [data |-> d1, errors |-> ne.errors, extras |-> x1, exc |-> ne.exc,
        new_key |-> new_key, value |-> value]

\* the state validate_date_inputs threads through its three parts: the dicts,
\* the exception in flight, and the locals date, value_full and date_key
Locals(g, date, value_full, date_key, errs) ==
    [data |-> g.data, errors |-> errs, extras |-> g.extras, exc |-> g.exc,
     date |-> date, value_full |-> value_full, date_key |-> date_key]

\* lines 115-122
date_part(f, k, st) ==
    LET g == get_input("date", f, k, st)
    IN IF g.exc # "none" THEN Locals(g, None, EmptyStr, g.new_key, g.errors)
       ELSE IF g.value = EmptyStr THEN Locals(g, None, EmptyStr, g.new_key, g.errors)
       ELSE LET p == date_str_to_datetime(g.value)
            IN IF p.ok THEN Locals(g, p.val, g.value, g.new_key, g.errors)
               ELSE Locals(g, None, g.value, g.new_key,
                           [g.errors EXCEPT ![g.new_key] =
                                Append(@, Msg("Date format incorrect"))])

\* value_full += ' ' + value raises TypeError unless both are strings
ParseCombined(value_full, value) ==
    IF value_full.t = "str" /\ value.t = "str"
    THEN date_str_to_datetime(Str(value_full.s \o <<" ">> \o value.s))
    ELSE [ok |-> FALSE, exc |-> "TypeError", val |-> None]

\* lines 124-134
time_part(f, k, st) ==
    IF st.exc # "none" THEN st ELSE
    LET g == get_input("time", f, k, st)
    IN IF g.exc # "none" \/ g.value = EmptyStr
       THEN Locals(g, st.date, st.value_full, st.date_key, g.errors)
       ELSE LET errsA == IF st.value_full = EmptyStr
                         THEN [g.errors EXCEPT ![st.date_key] =
                                   Append(@, Msg("Date is required when a time is provided"))]
                         ELSE g.errors
                p == ParseCombined(st.value_full, g.value)
            IN IF p.ok THEN Locals(g, p.val, st.value_full, st.date_key, errsA)
               ELSE Locals(g, st.date, st.value_full, st.date_key,
                           [errsA EXCEPT ![g.new_key] =
                                Append(@, Msg("Time format incorrect"))])

\* lines 136-142
tz_part(f, k, st) ==
    IF st.exc # "none" THEN st ELSE
    LET g == get_input("tz", f, k, st)
    IN IF g.exc # "none" \/ ~(Truthy(g.value) /\ g.value # EmptyStr)
       THEN Locals(g, st.date, st.value_full, st.date_key, g.errors)
       ELSE IF g.value.s \notin all_timezones
       THEN Locals(g, st.date, st.value_full, st.date_key,
                   [g.errors EXCEPT ![g.new_key] = Append(@, Msg("Invalid timezone"))])
       ELSE Locals(g, IF st.date.t = "datetime" THEN localize(g.value.s, st.date)
                      ELSE st.date,
                   st.value_full, st.date_key, g.errors)

\* returns the dicts as it leaves them, the exception in flight and the date
validate_date_inputs(f, k, d, ex, errs) ==
    tz_part(f, k, time_part(f, k,
        date_part(f, k, [data |-> d, errors |-> errs, extras |-> ex])))

(* ------------------- scheming_isodatetime, _tz ------------------------ *)
\* mutant: a typed value is not told apart from an empty one
IsTypedDatetimeNever(value) == FALSE

\* isinstance(value, datetime.datetime)
IsTypedDatetime(value) == value.t = "datetime"

\* not extras or key[0] + '_date' not in extras; a record without the
\* ('__extras',) entry and one whose extras are {} take the same branch, and
\* both are the empty function here
NoDateInput(k, ex) == DOMAIN ex = {} \/ (k[1] \o "_date") \notin DOMAIN ex

\* lines 164-165: required-ness enforced on the primary key; data[key] = None
\* is reached only when not_empty did not raise
NoSubFields(k, d, ex, ne) ==
    [data |-> IF ne.exc = "none" THEN [d EXCEPT ![k] = None] ELSE d,
     errors |-> ne.errors, extras |-> ex, exc |-> ne.exc, assembled |-> FALSE]

\* lines 167-170 and 195-200: the assembled date is stored unless an exception
\* is in flight; toUTC is the timezone-aware variant's conversion
StoreAssembled(k, r, toUTC) ==
    [data |-> IF r.exc # "none" THEN r.data
              ELSE IF toUTC /\ r.date.t = "datetime"
              THEN [r.data EXCEPT ![k] = scheming_datetime_to_UTC(r.date)]
              ELSE [r.data EXCEPT ![k] = r.date],
     errors |-> r.errors, extras |-> r.extras, exc |-> r.exc, assembled |-> TRUE]

\* the else branch of both validators
FromSubFields(f, k, d, ex, errs, toUTC) ==
    IF NoDateInput(k, ex)
    THEN NoSubFields(k, d, ex, IF f.required THEN not_empty(k, d, errs)
                               ELSE [errors |-> errs, exc |-> "none"])
    ELSE StoreAssembled(k, validate_date_inputs(f, k, d, ex, errs), toUTC)

Unchanged(d, ex, errs, exc) ==
    [data |-> d, errors |-> errs, extras |-> ex, exc |-> exc, assembled |-> FALSE]

isodatetime_validator(f, k, d, ex, errs) ==
    LET value == d[k]
    IN IF Truthy(value) /\ IsTypedDatetime(value)
       THEN Unchanged(d, ex, errs, "none")
       ELSE IF Truthy(value)
       THEN LET p == date_str_to_datetime(value)
            IN IF p.ok THEN Unchanged([d EXCEPT ![k] = p.val], ex, errs, "none")
               ELSE Unchanged(d, ex, errs, "Invalid")
       ELSE FromSubFields(f, k, d, ex, errs, FALSE)

isodatetime_tz_validator(f, k, d, ex, errs) ==
    LET value == d[k]
    IN IF Truthy(value) /\ IsTypedDatetime(value)
       THEN Unchanged([d EXCEPT ![k] = scheming_datetime_to_UTC(value)], ex, errs, "none")
       ELSE IF Truthy(value)
       THEN LET p == date_tz_str_to_datetime(value)
            IN IF p.ok THEN Unchanged([d EXCEPT ![k] = p.val], ex, errs, "none")
               ELSE Unchanged(d, ex, errs, "Invalid")
       ELSE FromSubFields(f, k, d, ex, errs, TRUE)

(* ------------------------ validators_from_string ---------------------- *)
Whitespace == {" ", "\t", "\n"}

\* s.split(): runs of whitespace separate, leading and trailing runs are dropped
RECURSIVE SplitWs(_, _, _)
SplitWs(cs, cur, acc) ==
    IF cs = <<>> THEN (IF cur = <<>> THEN acc ELSE Append(acc, cur))
    ELSE IF Head(cs) \in Whitespace
         THEN SplitWs(Tail(cs), <<>>, IF cur = <<>> THEN acc ELSE Append(acc, cur))
    ELSE SplitWs(Tail(cs), Append(cur, Head(cs)), acc)

\* str.split(sep) for a one-character sep: every sep cuts, empty pieces are kept
RECURSIVE SplitOn(_, _, _, _)
SplitOn(cs, sep, cur, acc) ==
    IF cs = <<>> THEN Append(acc, cur)
    ELSE IF Head(cs) = sep THEN SplitOn(Tail(cs), sep, <<>>, Append(acc, cur))
    ELSE SplitOn(Tail(cs), sep, Append(cur, Head(cs)), acc)

\* index of the first "(" of p, 0 when there is none
RECURSIVE FirstParen(_, _)
FirstParen(p, i) ==
    IF i > Len(p) THEN 0 ELSE IF p[i] = "(" THEN i ELSE FirstParen(p, i + 1)

N_unicode == <<"u", "n", "i", "c", "o", "d", "e">>
N_not_empty == <<"n", "o", "t", "_", "e", "m", "p", "t", "y">>
N_same_as == <<"s", "a", "m", "e", "_", "a", "s">>
N_required == <<"r", "e", "q", "u", "i", "r", "e", "d">>
N_pick == <<"p", "i", "c", "k">>
N_nope == <<"n", "o", "p", "e">>
N_zzz == <<"z", "z", "z">>

\* the registry behind get_validator: a plain validator, a factory taking
\* arguments, a validator decorated with scheming_validator, and a factory whose
\* result is decorated with scheming_validator
Registered == {N_not_empty, N_same_as, N_required, N_pick}
SchemingValidators == {N_required}
SchemingResults == {N_pick}

Fn(name) == [t |-> "fn", name |-> name]
Call(fn, args) == [t |-> "call", fn |-> fn, args |-> args]
Bound(v, f, schema) == [t |-> "bound", v |-> v, field |-> f, schema |-> schema]

\* getattr(v, 'is_a_scheming_validator', False)
is_a_scheming_validator(v) ==
    \/ v.t = "fn" /\ v.name \in SchemingValidators
    \/ v.t = "call" /\ v.fn.name \in SchemingResults

\* mutant: an unknown name is handed back instead of raising
get_validator_or_converter_silent(name) == [ok |-> TRUE, val |-> Fn(name), name |-> <<>>]

\* ok = FALSE stands for SchemingException('validator/converter not found: %r' % name)
get_validator_or_converter(name) ==
    IF name = N_unicode THEN [ok |-> TRUE, val |-> Fn(N_unicode), name |-> <<>>]
    ELSE IF name \in Registered THEN [ok |-> TRUE, val |-> Fn(name), name |-> <<>>]
    ELSE [ok |-> FALSE, val |-> None, name |-> name]

\* the loop body up to the value appended
compile_part(p, f, schema) ==
    LET i == FirstParen(p, 1)
        withArgs == i > 0 /\ p[Len(p)] = ")"
        name == IF withArgs THEN SubSeq(p, 1, i - 1) ELSE p
        args == IF withArgs THEN SplitOn(SubSeq(p, i + 1, Len(p) - 1), ",", <<>>, <<>>)
                ELSE <<>>
        g == get_validator_or_converter(name)
        v == IF withArgs THEN Call(g.val, args) ELSE g.val
    IN IF ~g.ok THEN g
       ELSE [ok |-> TRUE,
             val |-> IF is_a_scheming_validator(v) THEN Bound(v, f, schema) ELSE v,
             name |-> <<>>]

\* mutant: stages are collected in the reverse of the token order
PrependStage(acc, v) == <<v>> \o acc

\* out.append(v)
AppendStage(acc, v) == Append(acc, v)

RECURSIVE compile_loop(_, _, _, _)
compile_loop(parts, f, schema, acc) ==
    IF parts = <<>> THEN [t |-> "ok", stages |-> acc, name |-> <<>>]
    ELSE LET r == compile_part(Head(parts), f, schema)
         IN IF ~r.ok THEN [t |-> "raised", stages |-> <<>>, name |-> r.name]
            ELSE compile_loop(Tail(parts), f, schema, AppendStage(acc, r.val))

validators_from_string(str, f, schema) ==
    compile_loop(SplitWs(str, <<>>, <<>>), f, schema, <<>>)

(* ------------------------------ the record ---------------------------- *)
A == <<"a">>
C == <<"c">>
Q == <<QUOTE>>
X == <<"x">>
\* declared choices, in declared order
Choices == <<C, A, Q>>
Submittable == {Str(A), Str(C), Str(Q), Str(X)}

D1 == <<"2", "0", "2", "0", "-", "0", "1", "-", "1", "5">>
T1 == <<"1", "0", ":", "0", "0">>
BadTime == <<"9", "9">>
Mars == <<"M", "a", "r", "s">>

TagsKey == <<"tags">>
WhenKey == <<"when">>

ChoiceInputs ==
    {Missing, PyInt(7), Str(A), Str(X), Str(json_dumps(<<A, C>>))}
        \cup {List(l) : l \in SeqsUpTo(Submittable, MaxList)}

DateInputs ==
    {Missing, EmptyStr, Str(D1), Str(X),
     Datetime(2020, 1, 15, 10, 0, <<>>), Datetime(2020, 1, 1, 1, 0, EET)}

Absent == [t |-> "absent"]
ExtrasOf(date, time, tz, other) ==
    LET all == [n \in {"when_date", "when_time", "when_tz", "other"} |->
                    CASE n = "when_date" -> date
                      [] n = "when_time" -> time
                      [] n = "when_tz" -> tz
                      [] OTHER -> other]
    IN [n \in {m \in DOMAIN all : all[m] # Absent} |-> all[n]]

NoStage == [op |-> "none", exc |-> "none", assembled |-> FALSE, stored |-> None]

Snapshot == [data |-> data, errors |-> errors, extras |-> extras, last |-> last]

InitChoiceRecord ==
    /\ key = TagsKey
    /\ \E req \in BOOLEAN :
           field = [type |-> "multiple_choice", choices |-> Choices, required |-> req]
    /\ \E v \in ChoiceInputs : data = (TagsKey :> v)
    /\ \E e \in {<<>>, <<Msg("prior")>>} : errors = (TagsKey :> e)
    /\ extras = ExtrasOf(Absent, Absent, Absent, Absent)

InitDateRecord ==
    /\ key = WhenKey
    /\ \E req \in BOOLEAN :
           field = [type |-> "datetime", choices |-> <<>>, required |-> req]
    /\ \E v \in DateInputs : data = (WhenKey :> v)
    /\ errors = (WhenKey :> <<>>)
    /\ \E date \in {Absent, EmptyStr, Str(D1), Str(X)},
          time \in {Absent, EmptyStr, Str(T1), Str(BadTime)},
          tz \in {Absent, EmptyStr, Str(EET), Str(Mars)},
          other \in {Absent, Str(X)} :
           extras = ExtrasOf(date, time, tz, other)

Pending == [t |-> "pending", stages |-> <<>>, name |-> <<>>]

Init ==
    /\ InitChoiceRecord \/ InitDateRecord
    /\ last = NoStage
    /\ pre = Snapshot
    /\ stages = 0
    /\ s = <<>>
    /\ parts0 = <<>>
    /\ out = Pending

\* a pipeline goes on after a stage returned or raised Invalid; StopOnError ends it
CanRun == stages < MaxStages /\ last.exc \in {"none", "Invalid"}

\* the dicts as the stage r left them, and the record of the stage
Ran(op, r, ex, assembled, stored) ==
    /\ data' = r.data
    /\ errors' = r.errors
    /\ extras' = ex
    /\ last' = [op |-> op, exc |-> r.exc, assembled |-> assembled, stored |-> stored]
    /\ pre' = Snapshot
    /\ stages' = stages + 1
    /\ UNCHANGED <<field, key, s, parts0, out>>

\* the JSON string the validator stored without error, None when it did not
StoredBy(r) ==
    IF errors[key] = <<>> /\ r.errors[key] = <<>> THEN r.data[key] ELSE None

RanChoice(r) == Ran("multiple_choice", r, extras, FALSE, StoredBy(r))

MultipleChoice ==
    /\ CanRun
    /\ field.type = "multiple_choice"
    /\ RanChoice(multiple_choice_validator(field, key, data, errors))

\* the value at the key is decoded for display with scheming_multiple_choice_output
\* and submitted again: a new validation with a fresh Error Accumulator
Resubmitted(r) ==
    /\ r.exc = "none"
    /\ Ran("resubmit",
           [data |-> [data EXCEPT ![key] = r.val],
            errors |-> [k \in DOMAIN errors |-> <<>>], exc |-> "none"],
           extras, FALSE, last.stored)

Resubmit ==
    /\ CanRun
    /\ field.type = "multiple_choice"
    /\ Resubmitted(scheming_multiple_choice_output(data[key]))

RanDate(op, r) == Ran(op, r, r.extras, r.assembled, None)

IsoDatetime ==
    /\ CanRun
    /\ field.type = "datetime"
    /\ RanDate("isodatetime", isodatetime_validator(field, key, data, extras, errors))

IsoDatetimeTz ==
    /\ CanRun
    /\ field.type = "datetime"
    /\ RanDate("isodatetime_tz",
               isodatetime_tz_validator(field, key, data, extras, errors))

Next == MultipleChoice \/ Resubmit \/ IsoDatetime \/ IsoDatetimeTz

Spec == Init /\ [][Next]_vars

(* ------------------------------ compiling ----------------------------- *)
Paren(name, args) == name \o <<"(">> \o args \o <<")">>

Tokens ==
    {N_unicode, N_not_empty, N_required, Paren(N_same_as, <<"a", ",", "c">>),
     N_nope, Paren(N_zzz, <<"a">>), N_same_as \o <<"(">>, Paren(N_same_as, <<>>),
     Paren(N_pick, <<"a">>)}

RECURSIVE Join(_, _)
Join(parts, sep) ==
    IF parts = <<>> THEN <<>>
    ELSE IF Len(parts) = 1 THEN Head(parts)
    ELSE Head(parts) \o sep \o Join(Tail(parts), sep)

CompileField == [type |-> "multiple_choice", choices |-> Choices, required |-> FALSE]

InitCompile ==
    /\ key = TagsKey
    /\ field = CompileField
    /\ data = (TagsKey :> Missing)
    /\ errors = (TagsKey :> <<>>)
    /\ extras = ExtrasOf(Absent, Absent, Absent, Absent)
    /\ last = NoStage
    /\ pre = Snapshot
    /\ stages = 0
    /\ parts0 \in SeqsUpTo(Tokens, MaxTokens)
    /\ \E sep \in {<<" ">>, <<" ", "\t">>}, pad \in {<<>>, <<"\n">>} :
           s = pad \o Join(parts0, sep) \o pad
    /\ out = Pending

Compile ==
    /\ out = Pending
    /\ out' = validators_from_string(s, field, "schema")
    /\ UNCHANGED <<recordVars, s, parts0>>

NextCompile == Compile

SpecCompile == InitCompile /\ [][NextCompile]_vars

(* ------------------------------- claims ------------------------------- *)
Validators == {"multiple_choice", "isodatetime", "isodatetime_tz"}
DateOps == {"isodatetime", "isodatetime_tz"}

DateName == "when_date"
TimeName == "when_time"
TzName == "when_tz"
DerivedNames == {DateName, TimeName, TzName}

HasDuplicates(l) == \E i, j \in DOMAIN l : i < j /\ l[i] = l[j]
Recognized(e) == e.s \in SeqToSet(field.choices)
HasUnknown(l) == \E i \in DOMAIN l : ~Recognized(l[i])
ChoiceIndex(e) == CHOOSE i \in DOMAIN field.choices : field.choices[i] = e.s

\* one message per unrecognized element, in submission order
ExpectedUnexpected(l) ==
    LET unrec == SelectSeq(l, LAMBDA e : ~Recognized(e))
    IN [i \in DOMAIN unrec |-> MsgArg("unexpected choice", unrec[i])]

\* the elements of the value now at the key: of the list, or of the JSON array
ElementsAtKey ==
    IF data[key].t = "list" THEN data[key].l
    ELSE IF data[key].t = "str" /\ json_loads(data[key].s).ok
              /\ json_loads(data[key].s).val.t = "list"
    THEN json_loads(data[key].s).val.l
    ELSE <<data[key]>>

AtMostOnceInDeclaredOrder(l) ==
    \A i, j \in DOMAIN l :
        (i < j /\ Recognized(l[i]) /\ Recognized(l[j]))
            => ChoiceIndex(l[i]) < ChoiceIndex(l[j])

ListValidated ==
    /\ last.op = "multiple_choice"
    /\ pre.data[key].t = "list"
    /\ pre.errors[key] = <<>>

\* C3 as stated: after the multiple-choice validator ran on a list with duplicates
\* and unknown entries (no prior error), the value at the key holds each recognized
\* value at most once in declared order, and the key's errors are exactly one
\* 'unexpected choice' message per unrecognized element.
C3_AsStated ==
    (ListValidated /\ HasDuplicates(pre.data[key].l) /\ HasUnknown(pre.data[key].l))
        => /\ AtMostOnceInDeclaredOrder(ElementsAtKey)
           /\ errors[key] = ExpectedUnexpected(pre.data[key].l)

\* C3, amended: for any submitted list (no prior error on the key) the key's errors
\* start with one 'unexpected choice' message per unrecognized element, in
\* submission order.  With an unrecognized element nothing else is recorded and the
\* value at the key is left as submitted.  With none, the value stored is a JSON
\* array string holding exactly the submitted choice values, each once, in declared
\* order, and the only message possible is 'Select at least one' (required field,
\* empty selection).
C3_Normalized ==
    ListValidated =>
        IF HasUnknown(pre.data[key].l)
        THEN /\ errors[key] = ExpectedUnexpected(pre.data[key].l)
             /\ data[key] = pre.data[key]
        ELSE /\ data[key].t = "str"
             /\ json_loads(data[key].s).ok
             /\ json_loads(data[key].s).val.t = "list"
             /\ AtMostOnceInDeclaredOrder(ElementsAtKey)
             /\ SeqToSet(ElementsAtKey) = SeqToSet(pre.data[key].l)
             /\ errors[key] = IF field.required /\ pre.data[key].l = <<>>
                              THEN <<Msg("Select at least one")>> ELSE <<>>

\* a list with a duplicated recognized value and an unknown entry was validated:
\* one message, and the list still at the key
C3_Witness ==
    /\ ListValidated
    /\ pre.data[key].l = <<Str(A), Str(A), Str(X)>>
    /\ errors[key] = <<MsgArg("unexpected choice", Str(X))>>
    /\ data[key] = pre.data[key]

\* C4: when errors[key] is non-empty as the multiple-choice validator is invoked,
\* Record Data, the Error Accumulator and the extras are left exactly as they were
\* and the validator returns normally.
C4_NoOpOnPriorError ==
    (last.op = "multiple_choice" /\ pre.errors[key] # <<>>)
        => /\ data = pre.data
           /\ errors = pre.errors
           /\ extras = pre.extras
           /\ last.exc = "none"

\* the validator ran on a required field with a prior error and a list holding an
\* unknown entry
C4_Witness ==
    /\ last.op = "multiple_choice"
    /\ pre.errors[key] # <<>>
    /\ field.required
    /\ pre.data[key] = List(<<Str(X), Str(A)>>)

\* C5: a value the validator stored without error, decoded with
\* scheming_multiple_choice_output and validated again with an empty error list, is
\* stored as the same JSON array string and no error is recorded.
C5_Idempotent ==
    (last.op = "multiple_choice" /\ pre.last.op = "resubmit" /\ pre.last.stored # None)
        => /\ data[key] = pre.last.stored
           /\ errors[key] = <<>>

\* a stored two-element selection, one value holding a quote, went round
C5_Witness ==
    /\ last.op = "multiple_choice"
    /\ pre.last.op = "resubmit"
    /\ pre.last.stored = Str(json_dumps(<<A, Q>>))
    /\ pre.data[key] = List(<<Str(A), Str(Q)>>)

TypedPrimary == last.op \in DateOps /\ pre.data[key].t = "datetime"

\* C6: with a typed date/time value at the key, the date/time validators leave the
\* extras, the Error Accumulator and every other entry of Record Data as they were,
\* write no derived key, raise nothing, and change at most the value at the key:
\* not at all in the naive variant, to its UTC equivalent in the timezone-aware one.
C6_TypedBypass ==
    TypedPrimary
        => /\ extras = pre.extras
           /\ errors = pre.errors
           /\ last.exc = "none"
           /\ ~last.assembled
           /\ DOMAIN data = DOMAIN pre.data
           /\ \A k \in DOMAIN data : k # key => data[k] = pre.data[k]
           /\ last.op = "isodatetime" => data[key] = pre.data[key]
           /\ last.op = "isodatetime_tz"
                  => /\ data[key] = scheming_datetime_to_UTC(pre.data[key])
                     /\ pre.data[key].tz = <<>> => data[key] = pre.data[key]
                     /\ pre.data[key] = Datetime(2020, 1, 1, 1, 0, EET)
                            => <<data[key].y, data[key].mo, data[key].d,
                                 data[key].h, data[key].mi>> = <<2019, 12, 31, 23, 0>>

\* the timezone-aware variant met an aware typed value while sub-inputs were waiting
C6_Witness ==
    /\ last.op = "isodatetime_tz"
    /\ pre.data[key] = Datetime(2020, 1, 1, 1, 0, EET)
    /\ DerivedNames \subseteq DOMAIN pre.extras
    /\ data[key] # pre.data[key]

ErrorsAt(name) == IF <<name>> \in DOMAIN errors THEN errors[<<name>>] ELSE <<>>
EmptyOrAbsent(name) == name \in DOMAIN pre.extras => pre.extras[name] = EmptyStr

Assembled == last.op \in DateOps /\ last.assembled

\* C7: for a non-required field, with a valid <field>_date and <field>_time,
\* <field>_tz each empty or absent, the composed value is that date at midnight and
\* the error lists of the three sub-keys are empty.
C7_AbsentIsEmpty ==
    (/\ Assembled
     /\ ~field.required
     /\ pre.extras[DateName] = Str(D1)
     /\ EmptyOrAbsent(TimeName)
     /\ EmptyOrAbsent(TzName))
        => /\ data[key] = Datetime(2020, 1, 15, 0, 0, <<>>)
           /\ ErrorsAt(DateName) = <<>>
           /\ ErrorsAt(TimeName) = <<>>
           /\ ErrorsAt(TzName) = <<>>

\* C8: for a non-required field, with <field>_date empty and <field>_time non-empty,
\* 'Date is required when a time is provided' is appended on the date sub-key, the
\* time sub-key's error list stays empty and the composed value is none.
C8_NoReparseWithoutDate ==
    (/\ Assembled
     /\ ~field.required
     /\ pre.extras[DateName] = EmptyStr
     /\ TimeName \in DOMAIN pre.extras
     /\ pre.extras[TimeName] # EmptyStr)
        => /\ ErrorsAt(DateName) = <<Msg("Date is required when a time is provided")>>
           /\ ErrorsAt(TimeName) = <<>>
           /\ data[key] = None

\* C9: after sub-field assembly returned, every derived name that was in the extras
\* before the call, with any value, is gone from them, and every other entry is
\* still there with its value.
C9_ClaimByDelete ==
    (Assembled /\ last.exc = "none")
        => /\ \A n \in DerivedNames \cap DOMAIN pre.extras : n \notin DOMAIN extras
           /\ \A n \in DOMAIN pre.extras \ DerivedNames :
                  n \in DOMAIN extras /\ extras[n] = pre.extras[n]
           /\ DOMAIN extras \subseteq DOMAIN pre.extras

\* C10: every message in a key's error list before a validator of this module runs
\* is still there, at the same position, after it ran.
C10_AppendOnly ==
    last.op \in Validators
        => \A k \in DOMAIN pre.errors :
               /\ k \in DOMAIN errors
               /\ Len(errors[k]) >= Len(pre.errors[k])
               /\ SubSeq(errors[k], 1, Len(pre.errors[k])) = pre.errors[k]

(* --------------------------- claims, compiling ------------------------ *)
GoodTokens ==
    {N_unicode, N_not_empty, N_required, Paren(N_same_as, <<"a", ",", "c">>),
     Paren(N_same_as, <<>>), Paren(N_pick, <<"a">>)}
BadTokens == Tokens \ GoodTokens

\* what each token of the model stands for
ExpectedStage(tok) ==
    CASE tok = N_unicode -> Fn(N_unicode)
      [] tok = N_not_empty -> Fn(N_not_empty)
      [] tok = N_required -> Bound(Fn(N_required), field, "schema")
      [] tok = Paren(N_same_as, <<"a", ",", "c">>) -> Call(Fn(N_same_as), <<A, C>>)
      [] tok = Paren(N_same_as, <<>>) -> Call(Fn(N_same_as), <<<<>>>>)
      [] tok = Paren(N_pick, <<"a">>) -> Bound(Call(Fn(N_pick), <<A>>), field, "schema")

\* the name an unresolvable token of the model is looked up under
LookedUp(tok) ==
    CASE tok = N_nope -> N_nope
      [] tok = Paren(N_zzz, <<"a">>) -> N_zzz
      [] tok = N_same_as \o <<"(">> -> N_same_as \o <<"(">>

Compiled == out # Pending

\* C1: a string of N tokens whose names all resolve compiles to exactly N stages,
\* the i-th being what the i-th token stands for.
C1_StagesInOrder ==
    (Compiled /\ \A i \in DOMAIN parts0 : parts0[i] \in GoodTokens)
        => /\ out.t = "ok"
           /\ Len(out.stages) = Len(parts0)
           /\ \A i \in DOMAIN parts0 : out.stages[i] = ExpectedStage(parts0[i])

\* three different tokens, padded and separated by runs of whitespace, were compiled
C1_Witness ==
    /\ out.t = "ok"
    /\ parts0 = <<N_required, Paren(N_same_as, <<"a", ",", "c">>), N_unicode>>
    /\ Len(s) > Len(Join(parts0, <<" ">>))

Unresolvable(i) == parts0[i] \in BadTokens

\* C2 as stated: whichever token has an unresolvable name, the configuration error
\* raised carries that token's name and no pipeline is returned.
C2_AsStated ==
    Compiled =>
        \A i \in DOMAIN parts0 :
            Unresolvable(i)
                => /\ out.t = "raised"
                   /\ out.stages = <<>>
                   /\ out.name = LookedUp(parts0[i])

\* C2, amended: if any token has an unresolvable name, a configuration error is
\* raised that carries the name of the first such token of the string, and no
\* pipeline is returned.
C2_FirstUnresolvable ==
    (Compiled /\ \E i \in DOMAIN parts0 : Unresolvable(i))
        => LET first == CHOOSE i \in DOMAIN parts0 :
                            Unresolvable(i) /\ \A j \in 1..(i - 1) : ~Unresolvable(j)
           IN /\ out.t = "raised"
              /\ out.stages = <<>>
              /\ out.name = LookedUp(parts0[first])

\* an unresolvable name in the last place, behind two tokens that resolve
C2_Witness ==
    /\ out.t = "raised"
    /\ parts0 = <<N_not_empty, Paren(N_same_as, <<"a", ",", "c">>), Paren(N_zzz, <<"a">>)>>
    /\ out.name = N_zzz

====
